---- MODULE Spec2Model ----
(***************************************************************************)
(* Model of the statement text parser of RStatement (lib/pdf-parser.ts):   *)
(* parseStatement's format detection, parseKBank (Format A) and parseKTB   *)
(* (Format B).                                                             *)
(*                                                                         *)
(* A JavaScript string is a sequence of characters.  A character is a      *)
(* one-element TLA+ string: a digit "0".."9", one of , . - / : the space   *)
(* " ", the page separator "\n", the Latin letters "K" and "x" (any other  *)
(* letter), the word "PLUS", and one atom per Thai word, romanised:        *)
(*   rap / oon / ngoen / khao / dai / chamra / fak / dokbia / banchi /     *)
(*   khuen / chue / thiyu / patchuban / wanthi / songkhamkho / sakha /     *)
(*   chaokhong / praphet / lekthi, and the letters thothung / totao /      *)
(*   oang / chochan of the address abbreviations                           *)
(* The Thai phrases of the source are sequences of these atoms, so that    *)
(* the substring relations between the phrases are the source's.           *)
(*                                                                         *)
(* A JavaScript number is an IEEE-754 double.  Every number the parser     *)
(* handles is a multiple of 2^-59 (the spacing of doubles near 0.01), so a *)
(* double is kept exactly as sign and magnitude, the magnitude a natural   *)
(* number of units of 2^-59 written in limbs of 15 bits, least first.      *)
(***************************************************************************)
EXTENDS Integers, Sequences, FiniteSets, TLC

(***************************************************************************)
(* Natural numbers of any size: limbs in base 2^15, least significant      *)
(* first, no leading zero limb; zero is the empty sequence.                *)
(***************************************************************************)
LimbBase == 2^15

Limb(a, i) == IF i <= Len(a) THEN a[i] ELSE 0

RECURSIVE BigNorm(_)
BigNorm(a) ==
    IF a = <<>> THEN <<>>
    ELSE IF a[Len(a)] = 0 THEN BigNorm(SubSeq(a, 1, Len(a) - 1))
    ELSE a

RECURSIVE BigFromNat(_)
BigFromNat(n) ==
    IF n = 0 THEN <<>>
    ELSE <<n % LimbBase>> \o BigFromNat(n \div LimbBase)

RECURSIVE BigAddFrom(_, _, _, _)
BigAddFrom(a, b, i, carry) ==
    IF i > Len(a) /\ i > Len(b)
    THEN (IF carry = 0 THEN <<>> ELSE <<carry>>)
    ELSE LET s == Limb(a, i) + Limb(b, i) + carry
         IN  <<s % LimbBase>> \o BigAddFrom(a, b, i + 1, s \div LimbBase)

BigAdd(a, b) == BigAddFrom(a, b, 1, 0)

\* a - b for a >= b
RECURSIVE BigSubFrom(_, _, _, _)
BigSubFrom(a, b, i, borrow) ==
    IF i > Len(a) THEN <<>>
    ELSE LET s == Limb(a, i) - Limb(b, i) - borrow
         IN  IF s < 0
             THEN <<s + LimbBase>> \o BigSubFrom(a, b, i + 1, 1)
             ELSE <<s>> \o BigSubFrom(a, b, i + 1, 0)

BigSub(a, b) == BigNorm(BigSubFrom(a, b, 1, 0))

\* -1, 0, 1 as a < b, a = b, a > b
RECURSIVE BigCmpFrom(_, _, _)
BigCmpFrom(a, b, i) ==
    IF i = 0 THEN 0
    ELSE IF a[i] < b[i] THEN -1
    ELSE IF a[i] > b[i] THEN 1
    ELSE BigCmpFrom(a, b, i - 1)

BigCmp(a, b) ==
    IF Len(a) < Len(b) THEN -1
    ELSE IF Len(a) > Len(b) THEN 1
    ELSE BigCmpFrom(a, b, Len(a))

\* a * m for 0 <= m <= 2^15
RECURSIVE BigMulFrom(_, _, _, _)
BigMulFrom(a, m, i, carry) ==
    IF i > Len(a)
    THEN (IF carry = 0 THEN <<>> ELSE <<carry>>)
    ELSE LET p == a[i] * m + carry
         IN  <<p % LimbBase>> \o BigMulFrom(a, m, i + 1, p \div LimbBase)

BigMulSmall(a, m) == BigNorm(BigMulFrom(a, m, 1, 0))

\* quotient and remainder of a by d, 0 < d <= 2^15
RECURSIVE BigDivFrom(_, _, _, _)
BigDivFrom(a, d, i, r) ==
    IF i = 0 THEN [q |-> <<>>, r |-> r]
    ELSE LET cur  == r * LimbBase + a[i]
             rest == BigDivFrom(a, d, i - 1, cur % d)
         IN  [q |-> rest.q \o <<cur \div d>>, r |-> rest.r]

BigDivSmall(a, d) ==
    LET x == BigDivFrom(a, d, Len(a), 0)
    IN  [q |-> BigNorm(x.q), r |-> x.r]

\* a * 2^s
RECURSIVE BigShl(_, _)
BigShl(a, s) ==
    IF a = <<>> THEN <<>>
    ELSE IF s >= 15 THEN <<0>> \o BigShl(a, s - 15)
    ELSE BigMulSmall(a, 2^s)

RECURSIVE NatBits(_)
NatBits(n) == IF n = 0 THEN 0 ELSE 1 + NatBits(n \div 2)

BigBits(a) == IF a = <<>> THEN 0 ELSE 15 * (Len(a) - 1) + NatBits(a[Len(a)])

BigOdd(a) == a # <<>> /\ a[1] % 2 = 1

(***************************************************************************)
(* IEEE-754 binary64, round to nearest, ties to even.  RoundLoop halves a  *)
(* magnitude until it has 53 significant bits, keeping the last bit        *)
(* dropped (guard) and whether any earlier dropped bit was set (sticky),   *)
(* rounds, and scales back.                                                *)
(***************************************************************************)
Significand == 53

RECURSIVE RoundLoop(_, _, _, _)
RoundLoop(a, guard, sticky, h) ==
    IF BigBits(a) > Significand
    THEN LET d == BigDivSmall(a, 2)
         IN  RoundLoop(d.q, d.r, sticky \/ guard = 1, h + 1)
    ELSE LET up == guard = 1 /\ (sticky \/ BigOdd(a))
         IN  BigShl(IF up THEN BigAdd(a, <<1>>) ELSE a, h)

RoundDouble(a, sticky) == RoundLoop(a, 0, sticky, 0)

NaN == [nan |-> TRUE, neg |-> FALSE, mag |-> <<>>]

Double(neg, mag) == [nan |-> FALSE, neg |-> neg /\ mag # <<>>, mag |-> mag]

\* the double nearest to n / den (den one of 1, 10, 100), in units of 2^-59
DecimalToDouble(neg, n, den) ==
    LET d == BigDivSmall(BigShl(BigFromNat(n), 61), den)
    IN  Double(neg, BigDivSmall(RoundDouble(d.q, d.r # 0), 4).q)

\* x + y
NumAdd(x, y) ==
    IF x.nan \/ y.nan THEN NaN
    ELSE IF x.neg = y.neg
    THEN Double(x.neg, RoundDouble(BigAdd(x.mag, y.mag), FALSE))
    ELSE IF BigCmp(x.mag, y.mag) >= 0
    THEN Double(x.neg, RoundDouble(BigSub(x.mag, y.mag), FALSE))
    ELSE Double(y.neg, RoundDouble(BigSub(y.mag, x.mag), FALSE))

NumNeg(x) == IF x.nan THEN NaN ELSE Double(~x.neg, x.mag)

\* x - y
NumSub(x, y) == NumAdd(x, NumNeg(y))

\* Math.abs(x)
MathAbs(x) == IF x.nan THEN NaN ELSE Double(FALSE, x.mag)

\* x < y
NumLess(x, y) ==
    /\ ~x.nan
    /\ ~y.nan
    /\ IF x.neg /\ ~y.neg THEN TRUE
       ELSE IF ~x.neg /\ y.neg THEN FALSE
       ELSE IF x.neg THEN BigCmp(x.mag, y.mag) > 0
       ELSE BigCmp(x.mag, y.mag) < 0

\* x > y
NumGreater(x, y) == NumLess(y, x)

(***************************************************************************)
(* Strings: the String.prototype and RegExp operations the parser uses.    *)
(***************************************************************************)
Digits == {"0", "1", "2", "3", "4", "5", "6", "7", "8", "9"}

\* \d
IsDigit(c) == c \in Digits

\* \s
IsSpace(c) == c \in {" ", "\n"}

DigitVal(c) ==
    CASE c = "0" -> 0 [] c = "1" -> 1 [] c = "2" -> 2 [] c = "3" -> 3
      [] c = "4" -> 4 [] c = "5" -> 5 [] c = "6" -> 6 [] c = "7" -> 7
      [] c = "8" -> 8 [] c = "9" -> 9

DigitChar(n) ==
    CASE n = 0 -> "0" [] n = 1 -> "1" [] n = 2 -> "2" [] n = 3 -> "3"
      [] n = 4 -> "4" [] n = 5 -> "5" [] n = 6 -> "6" [] n = 7 -> "7"
      [] n = 8 -> "8" [] n = 9 -> "9"

MinOf(S) == CHOOSE x \in S : \A y \in S : x <= y

\* the character at i, or "" past either end
CharAt(s, i) == IF i >= 1 /\ i <= Len(s) THEN s[i] ELSE ""

\* whether pat occurs in s at position i
StartsAt(s, pat, i) ==
    /\ i >= 1
    /\ i + Len(pat) - 1 <= Len(s)
    /\ SubSeq(s, i, i + Len(pat) - 1) = pat

\* s.indexOf(pat) + 1: the first position of pat in s, 0 when there is none
IndexOf(s, pat) ==
    LET I == {i \in 1..(Len(s) - Len(pat) + 1) : StartsAt(s, pat, i)}
    IN  IF I = {} THEN 0 ELSE MinOf(I)

\* s.includes(pat)
Includes(s, pat) == IndexOf(s, pat) # 0

\* s.replace(pat, rep) with a string pattern: the first occurrence only
ReplaceFirst(s, pat, rep) ==
    LET i == IndexOf(s, pat)
    IN  IF i = 0 THEN s
        ELSE SubSeq(s, 1, i - 1) \o rep \o SubSeq(s, i + Len(pat), Len(s))

\* s.split(sep)[0]
SplitFirst(s, sep) ==
    LET i == IndexOf(s, sep)
    IN  IF i = 0 THEN s ELSE SubSeq(s, 1, i - 1)

\* s.trim()
Trim(s) ==
    LET I == {i \in 1..Len(s) : ~IsSpace(s[i])}
    IN  IF I = {} THEN <<>>
        ELSE SubSeq(s, MinOf(I), CHOOSE j \in I : \A k \in I : k <= j)

\* s.replace(/\s+/g, " "): a whitespace character that starts a run becomes
\* one space, the others of the run go; the characters lo..hi, by halves
RECURSIVE CollapseRange(_, _, _)
CollapseRange(s, lo, hi) ==
    IF lo > hi THEN <<>>
    ELSE IF lo = hi
    THEN IF ~IsSpace(s[lo]) THEN <<s[lo]>>
         ELSE IF IsSpace(CharAt(s, lo - 1)) THEN <<>>
         ELSE <<" ">>
    ELSE LET mid == (lo + hi) \div 2
         IN  CollapseRange(s, lo, mid) \o CollapseRange(s, mid + 1, hi)

CollapseSpaces(s) == CollapseRange(s, 1, Len(s))

\* mutant of RemoveCommas: the separators are left in
KeepCommas(s) == s

\* s.replace(/,/g, "")
RemoveCommas(s) == SelectSeq(s, LAMBDA c : c # ",")

\* the first position at or after i that holds no character of set C
RunEnd(s, i, C) == MinOf({j \in i..(Len(s) + 1) : CharAt(s, j) \notin C})

\* the end of the \s+ that starts at i
SpaceRunEnd(s, i) == RunEnd(s, i, {" ", "\n"})

RECURSIVE DigitsValue(_)
DigitsValue(s) ==
    IF s = <<>> THEN 0
    ELSE 10 * DigitsValue(SubSeq(s, 1, Len(s) - 1)) + DigitVal(s[Len(s)])

\* parseInt(s): the leading digits of s
parseInt(s) == DigitsValue(SubSeq(s, 1, RunEnd(s, 1, Digits) - 1))

\* n.toString() for an integer n >= 0
RECURSIVE toString(_)
toString(n) ==
    IF n < 10 THEN <<DigitChar(n)>>
    ELSE toString(n \div 10) \o <<DigitChar(n % 10)>>

\* parseFloat(s): sign, digits, and a fraction of at most two digits (every
\* string the parser passes ends in exactly two); NaN without any digit
parseFloat(s) ==
    LET neg  == CharAt(s, 1) = "-"
        b    == IF neg THEN 2 ELSE 1
        ie   == RunEnd(s, b, Digits)
        frac == CharAt(s, ie) = "."
        fe   == IF frac THEN RunEnd(s, ie + 1, Digits) ELSE ie
        nf   == IF frac THEN fe - ie - 1 ELSE 0
        ds   == SubSeq(s, b, ie - 1) \o SubSeq(s, ie + 1, fe - 1)
    IN  IF ds = <<>> THEN NaN
        ELSE DecimalToDouble(neg, DigitsValue(ds), 10^nf)

\* the literals 0.05 and 0.01 of the source
Tolerance == DecimalToDouble(FALSE, 5, 100)

SignEpsilon == DecimalToDouble(FALSE, 1, 100)

\* \d{2} sep \d{2} sep \d{2} at position i
DateAt(s, i, sep) ==
    /\ IsDigit(CharAt(s, i)) /\ IsDigit(CharAt(s, i + 1))
    /\ CharAt(s, i + 2) = sep
    /\ IsDigit(CharAt(s, i + 3)) /\ IsDigit(CharAt(s, i + 4))
    /\ CharAt(s, i + 5) = sep
    /\ IsDigit(CharAt(s, i + 6)) /\ IsDigit(CharAt(s, i + 7))

\* \d{2}:\d{2} at position i
TimeAt(s, i) ==
    /\ IsDigit(CharAt(s, i)) /\ IsDigit(CharAt(s, i + 1))
    /\ CharAt(s, i + 2) = ":"
    /\ IsDigit(CharAt(s, i + 3)) /\ IsDigit(CharAt(s, i + 4))

\* the first match of /\d{2}:\d{2}/ in s: its position, 0 when there is none
TimeIndex(s) ==
    LET I == {i \in 1..Len(s) : TimeAt(s, i)}
    IN  IF I = {} THEN 0 ELSE MinOf(I)

\* [\d,]
NumberChars == Digits \cup {","}

\* s.match(/[\d,]+\.\d{2}/g): the matched tokens in order (none: <<>>).  The
\* greedy [\d,]+ takes a whole run of digits and commas; a shorter run is
\* followed by a digit or comma, never by the dot, so backtracking adds nothing.
RECURSIVE NumbersFrom(_, _)
NumbersFrom(s, i) ==
    IF i > Len(s) THEN <<>>
    ELSE IF s[i] \notin NumberChars THEN NumbersFrom(s, i + 1)
    ELSE LET e == RunEnd(s, i, NumberChars)
         IN  IF /\ CharAt(s, e) = "."
                /\ IsDigit(CharAt(s, e + 1))
                /\ IsDigit(CharAt(s, e + 2))
             THEN <<SubSeq(s, i, e + 2)>> \o NumbersFrom(s, e + 3)
             ELSE NumbersFrom(s, i + 1)

\* mutant of MatchNumbers: the pattern takes a leading minus sign, /-?[\d,]+\.\d{2}/g
RECURSIVE SignedNumbersFrom(_, _)
SignedNumbersFrom(s, i) ==
    IF i > Len(s) THEN <<>>
    ELSE LET b == IF s[i] = "-" THEN i + 1 ELSE i
             e == RunEnd(s, b, NumberChars)
         IN  IF /\ CharAt(s, b) \in NumberChars
                /\ CharAt(s, e) = "."
                /\ IsDigit(CharAt(s, e + 1))
                /\ IsDigit(CharAt(s, e + 2))
             THEN <<SubSeq(s, i, e + 2)>> \o SignedNumbersFrom(s, e + 3)
             ELSE SignedNumbersFrom(s, i + 1)

MatchSignedNumbers(s) == SignedNumbersFrom(s, 1)

MatchNumbers(s) == NumbersFrom(s, 1)

(***************************************************************************)
(* The phrases of the source.                                              *)
(***************************************************************************)
KPlus == <<"K", " ", "PLUS">>

SakhaChaokhongBanchi == <<"sakha", "chaokhong", "banchi">>

ChamraNgoen == <<"chamra", "ngoen">>

OonNgoen == <<"oon", "ngoen">>

RapOonNgoen == <<"rap", "oon", "ngoen">>

RapOon == <<"rap", "oon">>

DaiRap == <<"dai", "rap">>

OonNgoenKhao == <<"oon", "ngoen", "khao">>

FakNgoen == <<"fak", "ngoen">>

NgoenOonKhao == <<"ngoen", "oon", "khao">>

Dokbia == <<"dokbia">>

KhaoBanchi == <<"khao", "banchi">>

KhuenNgoen == <<"khuen", "ngoen">>

ChueBanchi == <<"chue", "banchi">>

ThiyuPatchuban == <<"thiyu", "patchuban">>

WanthiSongKhamkho == <<"wanthi", "songkhamkho">>

PraphetBanchi == <<"praphet", "banchi">>

LekthiBanchi == <<"lekthi", "banchi">>

ThiyuSakha == <<"thiyu", "sakha">>

Sakha == <<"sakha">>

\* the value of an optional field that is absent: no string of the text
undefined == <<"undefined">>

\* const [d, m, y] = dateStr.split(sep)
DateParts(dateStr, sep) ==
    LET d  == SplitFirst(dateStr, <<sep>>)
        r1 == SubSeq(dateStr, Len(d) + 2, Len(dateStr))
        m  == SplitFirst(r1, <<sep>>)
        r2 == SubSeq(r1, Len(m) + 2, Len(r1))
    IN  [d |-> d, m |-> m, y |-> SplitFirst(r2, <<sep>>)]

(***************************************************************************)
(* Header extraction.  The patterns with a lazy group have the shape       *)
(*   P \s+ (.*?) \s+ Q     or     P (.*?) \s+ Q                            *)
(* The match starts at the first P after which some whitespace is followed *)
(* by Q, and its group ends before the first such whitespace.  LazyGroup   *)
(* is <<group>>, or <<>> when the pattern does not match.                  *)
(***************************************************************************)
AllDigits(s, i, n) == \A j \in i..(i + n - 1) : IsDigit(CharAt(s, j))

\* \d{3}-\d{1}- at position i
BranchTailAt(s, i) ==
    /\ AllDigits(s, i, 3) /\ CharAt(s, i + 3) = "-"
    /\ AllDigits(s, i + 4, 1) /\ CharAt(s, i + 5) = "-"

\* (?=\d{3}\/|tho\.|to\.|o\.|cho\.) at position j
KBankNameAfter(s, j) ==
    \/ AllDigits(s, j, 3) /\ CharAt(s, j + 3) = "/"
    \/ CharAt(s, j) \in {"thothung", "totao", "oang", "chochan"}
           /\ CharAt(s, j + 1) = "."

\* Q at position j: a phrase, or one of the two patterns of Format A, which
\* are named by words no text holds
AfterAt(s, Q, j) ==
    IF Q = <<"nameEnd">> THEN KBankNameAfter(s, j)
    ELSE IF Q = <<"branchTail">> THEN BranchTailAt(s, j)
    ELSE StartsAt(s, Q, j)

LazyGroup(s, P, gap, Q) ==
    LET From(p) == IF gap THEN SpaceRunEnd(s, p + Len(P)) ELSE p + Len(P)
        Ends(p) == {e \in From(p)..Len(s) :
                        IsSpace(s[e]) /\ AfterAt(s, Q, SpaceRunEnd(s, e))}
        Ps      == {p \in 1..Len(s) :
                        /\ StartsAt(s, P, p)
                        /\ gap => IsSpace(CharAt(s, p + Len(P)))
                        /\ Ends(p) # {}}
    IN  IF Ps = {} THEN <<>>
        ELSE <<SubSeq(s, From(MinOf(Ps)), MinOf(Ends(MinOf(Ps))) - 1)>>

\* nameMatch ? nameMatch[1].trim() : undefined
TrimmedGroup(g) == IF g = <<>> THEN undefined ELSE Trim(g[1])

\* \d{3}-\d{1}-\d{5}-\d{1} at position i
KBankAccountAt(s, i) ==
    /\ BranchTailAt(s, i)
    /\ AllDigits(s, i + 6, 5) /\ CharAt(s, i + 11) = "-"
    /\ AllDigits(s, i + 12, 1)

KBankAccountNumber(s) ==
    LET I == {i \in 1..Len(s) : KBankAccountAt(s, i)}
    IN  IF I = {} THEN undefined ELSE SubSeq(s, MinOf(I), MinOf(I) + 12)

KBankAccountOwner(s) == TrimmedGroup(LazyGroup(s, ChueBanchi, TRUE, <<"nameEnd">>))

\* mutant of KBankBranch: the group is not trimmed
KBankBranchUntrimmed(s) ==
    LET g == LazyGroup(s, Sakha, FALSE, <<"branchTail">>)
    IN  IF g = <<>> THEN undefined ELSE Sakha \o g[1]

KBankBranch(s) ==
    LET g == LazyGroup(s, Sakha, FALSE, <<"branchTail">>)
    IN  IF g = <<>> THEN undefined ELSE Sakha \o Trim(g[1])

KTBAccountOwner(s) == TrimmedGroup(LazyGroup(s, ChueBanchi, TRUE, PraphetBanchi))

\* the end of -? at position i
DashEnd(s, i) == IF CharAt(s, i) = "-" THEN i + 1 ELSE i

\* (\d{3}-?\d{1}-?\d{5}-?\d{1}|\d{10}) at position i: the position after the
\* match, 0 when there is none (ten digits match the first alternative)
KTBAccountEnd(s, i) ==
    LET a == DashEnd(s, i + 3)
        b == DashEnd(s, a + 1)
        c == DashEnd(s, b + 5)
    IN  IF /\ AllDigits(s, i, 3) /\ AllDigits(s, a, 1)
           /\ AllDigits(s, b, 5) /\ AllDigits(s, c, 1)
        THEN c + 1 ELSE 0

KTBAccountNumber(s) ==
    LET I == {p \in 1..Len(s) :
                 /\ StartsAt(s, LekthiBanchi, p)
                 /\ IsSpace(CharAt(s, p + 2))
                 /\ KTBAccountEnd(s, SpaceRunEnd(s, p + 2)) # 0}
        b == SpaceRunEnd(s, MinOf(I) + 2)
    IN  IF I = {} THEN undefined ELSE SubSeq(s, b, KTBAccountEnd(s, b) - 1)

KTBBranch(s) == TrimmedGroup(LazyGroup(s, Sakha, TRUE, LekthiBanchi))

KTBAddress(s) == TrimmedGroup(LazyGroup(s, ThiyuPatchuban, TRUE, ThiyuSakha))

(***************************************************************************)
(* parseStatement: the detection of the format.                            *)
(***************************************************************************)
\* mutant of DetectsKBank: the digit pattern is not looked for
DetectsKBankByPhrase(text) ==
    \/ Includes(text, KPlus)
    \/ Includes(text, SakhaChaokhongBanchi)

DetectsKBank(text) ==
    \/ Includes(text, KPlus)
    \/ Includes(text, SakhaChaokhongBanchi)
    \/ \E p \in 1..Len(text) : DateAt(text, p, "-")

(***************************************************************************)
(* parseKBank.  lineRegex is                                               *)
(*   (\d{2}-\d{2}-\d{2})\s+(\d{2}:\d{2})\s+(.*?)                           *)
(*                              (?=\d{2}-\d{2}-\d{2}\s+\d{2}:\d{2}|$)      *)
(* A match at p is its date, its time and the lazy content, which ends at  *)
(* the first position where the lookahead holds.                           *)
(***************************************************************************)
KBankAnchorAt(s, p) ==
    /\ DateAt(s, p, "-")
    /\ IsSpace(CharAt(s, p + 8))
    /\ TimeAt(s, SpaceRunEnd(s, p + 8))

KBankLineAt(s, p) ==
    /\ KBankAnchorAt(s, p)
    /\ IsSpace(CharAt(s, SpaceRunEnd(s, p + 8) + 5))

KBankLine(s, p) ==
    LET t == SpaceRunEnd(s, p + 8)
        c == SpaceRunEnd(s, t + 5)
        e == MinOf({j \in c..(Len(s) + 1) :
                        j = Len(s) + 1 \/ KBankAnchorAt(s, j)})
    IN  [index |-> p, date |-> SubSeq(s, p, p + 7), time |-> SubSeq(s, t, t + 4),
         content |-> SubSeq(s, c, e - 1), end |-> e]

\* cleanText.matchAll(lineRegex) from position from on
RECURSIVE KBankMatchAll(_, _)
KBankMatchAll(s, from) ==
    LET P == {p \in from..Len(s) : KBankLineAt(s, p)}
    IN  IF P = {} THEN <<>>
        ELSE LET m == KBankLine(s, MinOf(P))
             IN  <<m>> \o KBankMatchAll(s, m.end)

\* numbers.forEach(num => description = description.replace(num, ""))
RECURSIVE RemoveEach(_, _, _)
RemoveEach(s, numbers, k) ==
    IF k > Len(numbers) THEN s
    ELSE RemoveEach(ReplaceFirst(s, numbers[k], <<>>), numbers, k + 1)

KBankDescription(content, numbers) ==
    LET s0 == RemoveEach(content, numbers, 1)
        s1 == ReplaceFirst(s0, KPlus, <<>>)
        s2 == ReplaceFirst(s1, ChamraNgoen, <<>>)
        s3 == ReplaceFirst(s2, OonNgoen, <<>>)
        s4 == ReplaceFirst(s3, RapOonNgoen, <<>>)
    IN  CollapseSpaces(Trim(s4))

KBankIsoDate(dateStr) ==
    LET p == DateParts(dateStr, "-")
    IN  <<"2", "0">> \o p.y \o <<"-">> \o p.m \o <<"-">> \o p.d

\* the body of the first loop for one match: the candidate pushed, if any
\* mutant of KBankAccepts: one token is enough, numbers.length >= 1
KBankAcceptsOne(numbers) == Len(numbers) >= 1

KBankAccepts(numbers) == Len(numbers) >= 2

KBankCandidate(m) ==
    LET numbers == MatchNumbers(m.content)
    IN  [isoDate     |-> KBankIsoDate(m.date),
         time        |-> m.time,
         description |-> KBankDescription(m.content, numbers),
         amount      |-> parseFloat(RemoveCommas(numbers[Len(numbers)])),
         balance     |-> parseFloat(RemoveCommas(numbers[1]))]

\* mutant of KBankType: the keywords of the first item decide later items too
KBankTypeKeywordToo(raw, i) ==
    LET curr == raw[i + 1]
    IN  IF \/ i > 0 /\ NumGreater(NumSub(curr.balance, raw[i].balance), SignEpsilon)
           \/ Includes(curr.description, RapOon)
           \/ Includes(curr.description, DaiRap)
        THEN "income" ELSE "expense"

\* the type of candidate i (from 0) of the second loop
KBankType(raw, i) ==
    LET curr == raw[i + 1]
    IN  IF i > 0
        THEN IF NumGreater(NumSub(curr.balance, raw[i].balance), SignEpsilon)
             THEN "income" ELSE "expense"
        ELSE IF \/ Includes(curr.description, RapOon)
                \/ Includes(curr.description, DaiRap)
             THEN "income" ELSE "expense"

(***************************************************************************)
(* parseKTB.  lineRegex is                                                 *)
(*   (\d{2}\/\d{2}\/\d{2})\s+(.*?)(?=\s\d{2}\/\d{2}\/\d{2}|\s*$)           *)
(***************************************************************************)
KTBLineAt(s, p) == DateAt(s, p, "/") /\ IsSpace(CharAt(s, p + 8))

KTBLookahead(s, j) ==
    \/ IsSpace(CharAt(s, j)) /\ DateAt(s, j + 1, "/")
    \/ SpaceRunEnd(s, j) = Len(s) + 1

KTBLine(s, p) ==
    LET c == SpaceRunEnd(s, p + 8)
        e == MinOf({j \in c..(Len(s) + 1) : KTBLookahead(s, j)})
    IN  [index |-> p, date |-> SubSeq(s, p, p + 7),
         content |-> SubSeq(s, c, e - 1), end |-> e]

RECURSIVE KTBMatchAll(_, _)
KTBMatchAll(s, from) ==
    LET P == {p \in from..Len(s) : KTBLineAt(s, p)}
    IN  IF P = {} THEN <<>>
        ELSE LET m == KTBLine(s, MinOf(P))
             IN  <<m>> \o KTBMatchAll(s, m.end)

\* mutant of KTBIsHeader: the last marker of the guard is missing
KTBIsHeaderTwoMarkers(content) ==
    \/ Includes(content, ChueBanchi)
    \/ Includes(content, ThiyuPatchuban)

\* mutant of KTBIsHeader: there is no guard, no line is skipped as a header
KTBIsHeaderNever(content) == FALSE

\* the guard clause that skips header lines
KTBIsHeader(content) ==
    \/ Includes(content, ChueBanchi)
    \/ Includes(content, ThiyuPatchuban)
    \/ Includes(content, WanthiSongKhamkho)

\* mutant of KTBIsIncomeKeyword: the last keyword of the list is missing
KTBIsIncomeKeywordShort(content) ==
    \/ Includes(content, OonNgoenKhao)
    \/ Includes(content, FakNgoen)
    \/ Includes(content, RapOon)
    \/ Includes(content, NgoenOonKhao)
    \/ Includes(content, Dokbia)
    \/ Includes(content, KhaoBanchi)

KTBIsIncomeKeyword(content) ==
    \/ Includes(content, OonNgoenKhao)
    \/ Includes(content, FakNgoen)
    \/ Includes(content, RapOon)
    \/ Includes(content, NgoenOonKhao)
    \/ Includes(content, Dokbia)
    \/ Includes(content, KhaoBanchi)
    \/ Includes(content, KhuenNgoen)

\* description.replace(/\d{2}:\d{2}/, "")
RemoveFirstTime(s) ==
    LET t == TimeIndex(s)
    IN  IF t = 0 THEN s ELSE SubSeq(s, 1, t - 1) \o SubSeq(s, t + 5, Len(s))

KTBDescription(content, amountMatches) ==
    Trim(RemoveFirstTime(Trim(SplitFirst(content, amountMatches[1]))))

KTBTime(content) ==
    LET t == TimeIndex(content)
    IN  IF t = 0 THEN undefined ELSE SubSeq(content, t, t + 4)

\* mutant of KTBIsoDate: the year is taken as a civil one, "20" + y
KTBIsoDateCivil(dateStr) ==
    LET p == DateParts(dateStr, "/")
    IN  <<"2", "0">> \o p.y \o <<"-">> \o p.m \o <<"-">> \o p.d

KTBIsoDate(dateStr) ==
    LET p      == DateParts(dateStr, "/")
        yearTh == 2500 + parseInt(p.y)
        yearAd == yearTh - 543
    IN  toString(yearAd) \o <<"-">> \o p.m \o <<"-">> \o p.d

\* mutant of KTBAccepts: a balance is required too, amountMatches.length > 1
KTBAcceptsTwo(amountMatches) == Len(amountMatches) > 1

KTBAccepts(amountMatches) == Len(amountMatches) > 0

KTBCandidate(m) ==
    LET amountMatches == MatchNumbers(m.content)
    IN  [isoDate         |-> KTBIsoDate(m.date),
         time            |-> KTBTime(m.content),
         description     |-> KTBDescription(m.content, amountMatches),
         amount          |-> parseFloat(RemoveCommas(amountMatches[1])),
         balance         |-> parseFloat(RemoveCommas(
                                 amountMatches[Len(amountMatches)])),
         isIncomeKeyword |-> KTBIsIncomeKeyword(m.content)]

\* Math.abs(x - y) < 0.05
KTBMatches(x, y) == NumLess(MathAbs(NumSub(x, y)), Tolerance)

\* mutant of KTBType: every item is classified as the first one, by keyword
KTBTypeKeywordOnly(raw, i) ==
    IF raw[i + 1].isIncomeKeyword THEN "income" ELSE "expense"

\* mutant of KTBType: an income keyword decides before the balances are compared
KTBTypeKeywordFirst(raw, i) ==
    LET curr == raw[i + 1]
    IN  IF curr.isIncomeKeyword THEN "income"
        ELSE IF i > 0
        THEN LET prev      == raw[i]
                 ifIncome  == NumAdd(prev.balance, curr.amount)
                 ifExpense == NumSub(prev.balance, curr.amount)
             IN  IF KTBMatches(ifIncome, curr.balance) THEN "income"
                 ELSE "expense"
        ELSE "expense"

\* mutant of KTBType: the expense test is evaluated before the income test
KTBTypeExpenseFirst(raw, i) ==
    LET curr == raw[i + 1]
    IN  IF i > 0
        THEN LET prev      == raw[i]
                 ifIncome  == NumAdd(prev.balance, curr.amount)
                 ifExpense == NumSub(prev.balance, curr.amount)
             IN  IF KTBMatches(ifExpense, curr.balance) THEN "expense"
                 ELSE IF KTBMatches(ifIncome, curr.balance) THEN "income"
                 ELSE IF curr.isIncomeKeyword THEN "income" ELSE "expense"
        ELSE IF curr.isIncomeKeyword THEN "income" ELSE "expense"

KTBType(raw, i) ==
    LET curr == raw[i + 1]
    IN  IF i > 0
        THEN LET prev      == raw[i]
                 ifIncome  == NumAdd(prev.balance, curr.amount)
                 ifExpense == NumSub(prev.balance, curr.amount)
             IN  IF KTBMatches(ifIncome, curr.balance) THEN "income"
                 ELSE IF KTBMatches(ifExpense, curr.balance) THEN "expense"
                 ELSE IF curr.isIncomeKeyword THEN "income" ELSE "expense"
        ELSE IF curr.isIncomeKeyword THEN "income" ELSE "expense"

\* the StatementData parseKBank returns: the header fields of the normalized
\* text, the transactions, and the text it was given
KBankStatement(text, clean, txs) ==
    [bankName      |-> "KBank",
     accountNumber |-> KBankAccountNumber(clean),
     accountOwner  |-> KBankAccountOwner(clean),
     branch        |-> KBankBranch(clean),
     address       |-> undefined,
     transactions  |-> txs,
     rawText       |-> text]

\* mutant of KTBStatement: rawText: cleanText
KTBStatementOfCleanText(text, clean, txs) ==
    [bankName      |-> "Krungthai",
     accountNumber |-> KTBAccountNumber(clean),
     accountOwner  |-> KTBAccountOwner(clean),
     branch        |-> KTBBranch(clean),
     address       |-> KTBAddress(clean),
     transactions  |-> txs,
     rawText       |-> clean]

\* the StatementData parseKTB returns
KTBStatement(text, clean, txs) ==
    [bankName      |-> "Krungthai",
     accountNumber |-> KTBAccountNumber(clean),
     accountOwner  |-> KTBAccountOwner(clean),
     branch        |-> KTBBranch(clean),
     address       |-> KTBAddress(clean),
     transactions  |-> txs,
     rawText       |-> text]

\* mutant of Push: arr.unshift(x)
Unshift(arr, x) == <<x>> \o arr

\* arr.push(x)
Push(arr, x) == Append(arr, x)

\* mutant of Transaction: the id is (++idCounter).toString()
TransactionPreIncrement(curr, id, type) ==
    [id          |-> toString(id + 1),
     date        |-> curr.isoDate,
     time        |-> curr.time,
     description |-> curr.description,
     amount      |-> curr.amount,
     type        |-> type]

\* the object pushed by transactions.push({id: (idCounter++).toString(), ...})
Transaction(curr, id, type) ==
    [id          |-> toString(id),
     date        |-> curr.isoDate,
     time        |-> curr.time,
     description |-> curr.description,
     amount      |-> curr.amount,
     type        |-> type]

(***************************************************************************)
(* The texts parsed.  A text is what parseStatement builds from the        *)
(* document: the items of a page joined by single spaces, and "\n" after   *)
(* the page.  A statement line is a date anchor followed by its words.     *)
(***************************************************************************)
MaxSpans == 3

MaxVaried == 2

RECURSIVE JoinWords(_)
JoinWords(ws) ==
    IF ws = <<>> THEN <<>>
    ELSE IF Len(ws) = 1 THEN ws[1]
    ELSE ws[1] \o <<" ">> \o JoinWords(Tail(ws))

RECURSIVE Flatten(_)
Flatten(lines) ==
    IF lines = <<>> THEN <<>> ELSE lines[1] \o Flatten(Tail(lines))

\* the day of line k of a text of n lines, oldest first or newest first
DayOf(order, k, n) ==
    LET d == IF order = "oldestFirst" THEN k ELSE n + 1 - k
    IN  <<DigitChar(d \div 10), DigitChar(d % 10)>>

Orders == {"oldestFirst", "newestFirst"}

X == <<"x">>

Time0853 == <<"0", "8", ":", "5", "3">>

T500 == <<"5", "0", "0", ".", "0", "0">>

TMinus500 == <<"-", "5", "0", "0", ".", "0", "0">>

T1000 == <<"1", ",", "0", "0", "0", ".", "0", "0">>

T1500 == <<"1", ",", "5", "0", "0", ".", "0", "0">>

T1500p05 == <<"1", ",", "5", "0", "0", ".", "0", "5">>

T16 == <<"1", "6", ".", "0", "0">>

TMinus16 == <<"-", "1", "6", ".", "0", "0">>

T1255p41 == <<"1", ",", "2", "5", "5", ".", "4", "1">>

T1271p41 == <<"1", ",", "2", "7", "1", ".", "4", "1">>

T0p01 == <<"0", ".", "0", "1">>

T0p02 == <<"0", ".", "0", "2">>

T0p03 == <<"0", ".", "0", "3">>

T0p04 == <<"0", ".", "0", "4">>

\* Format B lines: description, amount, balance.  The core lines occur in
\* texts of any length, the others in texts of at most MaxVaried lines.
KTBCore ==
    { <<X>>,
      <<X, T500, T1000>>,
      <<OonNgoen, T500, T1500>>,
      <<Time0853, RapOon, T500>>,
      <<ChueBanchi, X, T500>> }

KTBContents ==
    KTBCore \cup
    { <<X, T500>>,
      <<Time0853, FakNgoen, T500, T1000>>,
      <<Dokbia, T500, T1500>>,
      <<X, T500, T1500p05>>,
      <<X, TMinus500, T1500>>,
      <<OonNgoenKhao, T500>>,
      <<NgoenOonKhao, T500>>,
      <<KhaoBanchi, T500>>,
      <<KhuenNgoen, T500>> }

KTBDate(order, k, n) == DayOf(order, k, n) \o <<"/", "1", "0", "/", "6", "8">>

\* Format A lines: channel, balance, description, amount
KBankCore ==
    { <<KPlus, ChamraNgoen, T16>>,
      <<KPlus, T1255p41, ChamraNgoen, T16>>,
      <<KPlus, T1271p41, RapOonNgoen, T16>>,
      <<KPlus, T0p03, X, T0p01>> }

KBankContents ==
    KBankCore \cup
    { <<KPlus, T1255p41, DaiRap, T16>>,
      <<KPlus, T0p02, RapOon, X, T0p01>>,
      <<KPlus, T0p04, ChamraNgoen, T0p01>>,
      <<KPlus, T1271p41, X, TMinus16>> }

KBankDate(order, k, n) ==
    <<DayOf(order, k, n) \o <<"-", "0", "7", "-", "2", "5">>, Time0853>>

\* the text of lines with contents c[1..n], dated in the given order
KTBText(order, c) ==
    JoinWords(Flatten([k \in 1..Len(c) |->
        <<KTBDate(order, k, Len(c))>> \o c[k]])) \o <<"\n">>

KBankText(order, c) ==
    JoinWords(Flatten([k \in 1..Len(c) |->
        KBankDate(order, k, Len(c)) \o c[k]])) \o <<"\n">>

\* the account header that precedes the lines of a statement
KTBHeader ==
    JoinWords(<<ChueBanchi, X, X, PraphetBanchi, X, Sakha, X, LekthiBanchi,
                <<"1", "2", "3", "-", "4", "-", "5", "6", "7", "8", "9", "-", "0">>,
                ThiyuPatchuban, X, X, ThiyuSakha, X>>)

KBankHeader ==
    JoinWords(<<ChueBanchi, X, X,
                <<"1", "2", "3", "/", "4", " ", "thothung", ".", "x">>,
                Sakha \o X,
                <<"0", "3", "5", "-", "1", "-", "8", "9", "3", "0", "4", "-", "4">>,
                SakhaChaokhongBanchi>>)

HeadedTexts ==
    {KTBHeader \o <<" ">> \o KTBText("oldestFirst", <<c>>) : c \in KTBCore}
        \cup {KBankHeader \o <<" ">> \o KBankText("oldestFirst", <<c>>) : c \in KBankCore}

BodyTexts ==
    UNION { {KTBText(o, c) : o \in Orders,
                c \in [1..n -> IF n <= MaxVaried THEN KTBContents ELSE KTBCore]}
            \cup
            {KBankText(o, c) : o \in Orders,
                c \in [1..n -> IF n <= MaxVaried THEN KBankContents ELSE KBankCore]}
            : n \in 0..MaxSpans }

\* one line dated with each two-digit year, in each format; the day and the
\* month vary with the year over 00..99 (the parser does not validate them)
YearTexts ==
    LET DD(n) == <<DigitChar(n \div 10), DigitChar(n % 10)>>
        Date(y, sep) == DD((7 * y + 1) % 100) \o <<sep>> \o DD((3 * y + 7) % 100)
                            \o <<sep>> \o DD(y)
    IN  {JoinWords(<<Date(y, "/"), X, T500>>) \o <<"\n">> : y \in 0..99}
            \cup {JoinWords(<<Date(y, "-"), Time0853, KPlus, T1255p41, X, T16>>)
                      \o <<"\n">> : y \in 0..99}

\* texts of particular shapes: anchors that follow one another directly,
\* tokens with misplaced or missing separators, three and no tokens, header
\* markers in a line, signatures of Format A in texts dated as Format B,
\* and texts without any anchor
ExtraTexts ==
    LET CommaDot50 == <<",", ".", "5", "0">>
        Plain1255  == <<"1", "2", "5", "5", ".", "4", "1">>
        Odd1255    == <<"1", "2", ",", "5", "5", ".", "4", "1">>
        Odd16      == <<"1", ",", "6", ".", "0", "0">>
        Dashes     == <<"0", "1", "-", "0", "7", "-", "2", "5">>
        Time0915   == <<"0", "9", ":", "1", "5">>
        Zero       == <<"0", ".", "0", "0">>
        T0p05      == <<"0", ".", "0", "5">>
        SpacedHeader ==
            JoinWords(<<ChueBanchi, X, <<"1", "2", "3", "/", "4">>, Sakha, X,
                        <<"0", "3", "5", "-", "1", "-", "8", "9", "3", "0", "4", "-", "4">>>>)
    IN  {KTBText("oldestFirst", c) : c \in
            { << <<>>, <<X, T500, T1000>> >>,
              << <<X, T500, T1000>>, <<>>, <<X, T500, T1500>> >>,
              << <<X, CommaDot50>> >>,
              << <<X, Plain1255, T1255p41>>, <<X, Odd1255, Plain1255>> >>,
              << <<ThiyuPatchuban, X, T500>>, <<WanthiSongKhamkho, T500, T1000>> >>,
              << <<KPlus, T500, T1000>> >>,
              << <<SakhaChaokhongBanchi, T500, T1000>> >>,
              << <<X, Dashes, T500, T1000>> >>,
              << <<Time0853, X, Time0915, T500, T1000>> >>,
              << <<X, T500, Time0915, T1000>> >>,
              << <<X, T500, T1000>>, <<ThiyuPatchuban, T500, T1500>>,
                 <<X, T500, T1500>> >>,
              << <<X, T500, T1000>>, <<X, Zero, T1000>> >>,
              << <<X, T500, T1000>>, <<X, T0p04, T1000>> >>,
              << <<X, T500, T1000>>, <<X, T0p05, T1000>> >> }}
        \cup
        {KBankText("oldestFirst", c) : c \in
            { << <<>>, <<KPlus, T1255p41, ChamraNgoen, T16>> >>,
              << <<KPlus, T1255p41, X, CommaDot50>> >>,
              << <<KPlus, X>>, <<KPlus, T1255p41, T500, ChamraNgoen, T16>> >>,
              << <<KPlus, T1255p41, ChueBanchi, X, T16>>,
                 <<KPlus, T1271p41, WanthiSongKhamkho, T16>> >>,
              << <<X, T1255p41, X, T16>> >>,
              << <<KPlus, Plain1255, X, T16>>, <<KPlus, T1255p41, X, Odd16>> >>,
              << <<KPlus, T1255p41, X, T16>>, <<KPlus, T1500>>,
                 <<KPlus, T1271p41, X, T16>> >>,
              << <<KPlus, T1255p41, KPlus, X, T16>> >>,
              << <<RapOonNgoen, T1255p41, OonNgoen, T16, T16>> >> }}
        \cup
        { KTBHeader \o <<"\n">>,
          <<"x", " ", "x", "\n">>,
          KPlus \o <<"\n">>,
          SpacedHeader \o <<" ">>
              \o KBankText("oldestFirst", << <<KPlus, T1255p41, ChamraNgoen, T16>> >>) }

Texts == BodyTexts \cup HeadedTexts \cup YearTexts \cup ExtraTexts

(***************************************************************************)
(* The state of one parse.                                                 *)
(*   fullText        the text of the document                              *)
(*   pc              "parseStatement", "parseKBank", "parseKTB" or "done"  *)
(*   cleanText       the text with whitespace runs collapsed               *)
(*   matches, mi     the line matches and the position of the first loop   *)
(*   rawTransactions the candidates pushed by the first loop               *)
(*   origin          history: for each candidate, the number of its match  *)
(*   i               the index of the second loop (from 0)                 *)
(*   idCounter, transactions                                              *)
(*   result          <<>> until the parse returns, then <<StatementData>>, *)
(*                   the bank name shortened to "KBank" or "Krungthai"     *)
(*                                                                         *)
(* The state of the upload page, the component Home.                       *)
(*   data            <<>> (null) or <<StatementData>>: the statement shown *)
(*   rawText         the text shown with the error for debugging           *)
(*   isLoading, error, showPasswordInput, password, pendingFile            *)
(*                   as in the component; error and pendingFile are <<>>   *)
(*                   for null                                              *)
(*   calls           the invocations of processFile so far, each with its  *)
(*                   arguments, the state of its parseStatement call (the  *)
(*                   await it stands at, the text read, the value it has   *)
(*                   resolved with) and the state of its Promise.race      *)
(* isDragging, which only colours the drop zone, is left out.              *)
(***************************************************************************)
VARIABLES fullText, pc, cleanText, matches, mi, rawTransactions, origin, i,
          idCounter, transactions, result,
          data, rawText, isLoading, error, showPasswordInput, password,
          pendingFile, calls

vars == <<fullText, pc, cleanText, matches, mi, rawTransactions, origin, i,
          idCounter, transactions, result>>

homeVars == <<data, rawText, isLoading, error, showPasswordInput, password,
              pendingFile, calls>>

\* the useState initial values of Home; no processFile has been invoked
HomeInit ==
    /\ data = <<>>
    /\ rawText = <<>>
    /\ isLoading = FALSE
    /\ error = <<>>
    /\ showPasswordInput = FALSE
    /\ password = <<>>
    /\ pendingFile = <<>>
    /\ calls = <<>>

Init ==
    /\ fullText \in Texts
    /\ pc = "parseStatement"
    /\ cleanText = <<>>
    /\ matches = <<>>
    /\ mi = 1
    /\ rawTransactions = <<>>
    /\ origin = <<>>
    /\ i = 0
    /\ idCounter = 1
    /\ transactions = <<>>
    /\ result = <<>>
    /\ HomeInit

\* parseStatement chooses parseKBank, which runs up to its first loop
EnterKBank ==
    /\ pc = "parseStatement"
    /\ DetectsKBank(fullText)
    /\ pc' = "parseKBank"
    /\ cleanText' = CollapseSpaces(fullText)
    /\ matches' = KBankMatchAll(cleanText', 1)
    /\ mi' = 1
    /\ idCounter' = 1
    /\ rawTransactions' = <<>>
    /\ transactions' = <<>>
    /\ UNCHANGED <<fullText, origin, i, result>>
    /\ UNCHANGED homeVars

\* parseStatement chooses parseKTB, which runs up to its first loop
EnterKTB ==
    /\ pc = "parseStatement"
    /\ ~DetectsKBank(fullText)
    /\ pc' = "parseKTB"
    /\ cleanText' = CollapseSpaces(fullText)
    /\ matches' = KTBMatchAll(cleanText', 1)
    /\ mi' = 1
    /\ idCounter' = 1
    /\ rawTransactions' = <<>>
    /\ transactions' = <<>>
    /\ UNCHANGED <<fullText, origin, i, result>>
    /\ UNCHANGED homeVars

\* one iteration of the first loop of parseKBank
KBankPass1 ==
    /\ pc = "parseKBank"
    /\ mi <= Len(matches)
    /\ IF KBankAccepts(MatchNumbers(matches[mi].content))
       THEN /\ rawTransactions' = Push(rawTransactions, KBankCandidate(matches[mi]))
            /\ origin' = Append(origin, mi)
       ELSE UNCHANGED <<rawTransactions, origin>>
    /\ mi' = mi + 1
    /\ UNCHANGED <<fullText, pc, cleanText, matches, i, idCounter, transactions,
                   result>>
    /\ UNCHANGED homeVars

\* one iteration of the second loop of parseKBank
KBankPass2 ==
    /\ pc = "parseKBank"
    /\ mi > Len(matches)
    /\ i < Len(rawTransactions)
    /\ transactions' = Push(transactions,
           Transaction(rawTransactions[i + 1], idCounter,
                       KBankType(rawTransactions, i)))
    /\ idCounter' = idCounter + 1
    /\ i' = i + 1
    /\ UNCHANGED <<fullText, pc, cleanText, matches, mi, rawTransactions, origin,
                   result>>
    /\ UNCHANGED homeVars

KBankReturn ==
    /\ pc = "parseKBank"
    /\ mi > Len(matches)
    /\ i >= Len(rawTransactions)
    /\ result' = <<KBankStatement(fullText, cleanText, transactions)>>
    /\ pc' = "done"
    /\ UNCHANGED <<fullText, cleanText, matches, mi, rawTransactions, origin, i,
                   idCounter, transactions>>
    /\ UNCHANGED homeVars

\* one iteration of the first loop of parseKTB
KTBPass1 ==
    /\ pc = "parseKTB"
    /\ mi <= Len(matches)
    /\ IF /\ ~KTBIsHeader(matches[mi].content)
          /\ KTBAccepts(MatchNumbers(matches[mi].content))
       THEN /\ rawTransactions' = Push(rawTransactions, KTBCandidate(matches[mi]))
            /\ origin' = Append(origin, mi)
       ELSE UNCHANGED <<rawTransactions, origin>>
    /\ mi' = mi + 1
    /\ UNCHANGED <<fullText, pc, cleanText, matches, i, idCounter, transactions,
                   result>>
    /\ UNCHANGED homeVars

\* one iteration of the second loop of parseKTB
KTBPass2 ==
    /\ pc = "parseKTB"
    /\ mi > Len(matches)
    /\ i < Len(rawTransactions)
    /\ transactions' = Push(transactions,
           Transaction(rawTransactions[i + 1], idCounter,
                       KTBType(rawTransactions, i)))
    /\ idCounter' = idCounter + 1
    /\ i' = i + 1
    /\ UNCHANGED <<fullText, pc, cleanText, matches, mi, rawTransactions, origin,
                   result>>
    /\ UNCHANGED homeVars

KTBReturn ==
    /\ pc = "parseKTB"
    /\ mi > Len(matches)
    /\ i >= Len(rawTransactions)
    /\ result' = <<KTBStatement(fullText, cleanText, transactions)>>
    /\ pc' = "done"
    /\ UNCHANGED <<fullText, cleanText, matches, mi, rawTransactions, origin, i,
                   idCounter, transactions>>
    /\ UNCHANGED homeVars

Next ==
    \/ EnterKBank
    \/ EnterKTB
    \/ KBankPass1
    \/ KBankPass2
    \/ KBankReturn
    \/ KTBPass1
    \/ KTBPass2
    \/ KTBReturn

Spec == Init /\ [][Next]_vars

(***************************************************************************)
(* The parse as a function of the text: the loops of the actions above,   *)
(* run to the end.  parseKBank and parseKTB hold no await, so within the   *)
(* page a parse is one step.                                               *)
(***************************************************************************)
\* the first loop of parseKBank from match k on, raw being the candidates so far
RECURSIVE KBankRawTransactions(_, _, _)
KBankRawTransactions(ms, k, raw) ==
    IF k > Len(ms) THEN raw
    ELSE KBankRawTransactions(ms, k + 1,
             IF KBankAccepts(MatchNumbers(ms[k].content))
             THEN Push(raw, KBankCandidate(ms[k]))
             ELSE raw)

\* the second loop of parseKBank from index n on, id being the value of idCounter
RECURSIVE KBankTransactions(_, _, _, _)
KBankTransactions(raw, n, id, txs) ==
    IF n >= Len(raw) THEN txs
    ELSE KBankTransactions(raw, n + 1, id + 1,
             Push(txs, Transaction(raw[n + 1], id, KBankType(raw, n))))

parseKBank(text) ==
    LET clean == CollapseSpaces(text)
        raw   == KBankRawTransactions(KBankMatchAll(clean, 1), 1, <<>>)
    IN  KBankStatement(text, clean, KBankTransactions(raw, 0, 1, <<>>))

RECURSIVE KTBRawTransactions(_, _, _)
KTBRawTransactions(ms, k, raw) ==
    IF k > Len(ms) THEN raw
    ELSE KTBRawTransactions(ms, k + 1,
             IF /\ ~KTBIsHeader(ms[k].content)
                /\ KTBAccepts(MatchNumbers(ms[k].content))
             THEN Push(raw, KTBCandidate(ms[k]))
             ELSE raw)

RECURSIVE KTBTransactions(_, _, _, _)
KTBTransactions(raw, n, id, txs) ==
    IF n >= Len(raw) THEN txs
    ELSE KTBTransactions(raw, n + 1, id + 1,
             Push(txs, Transaction(raw[n + 1], id, KTBType(raw, n))))

\* mutant of parseKTB: idCounter is a variable of the module, which keeps
\* counting from one parse to the next
RECURSIVE IdsIssued(_)
IdsIssued(c) ==
    IF c = 0 THEN 0
    ELSE IdsIssued(c - 1)
             + (IF calls[c].value = <<>> THEN 0
                ELSE Len(calls[c].value[1].transactions))

parseKTBSharedCounter(text) ==
    LET clean == CollapseSpaces(text)
        raw   == KTBRawTransactions(KTBMatchAll(clean, 1), 1, <<>>)
        first == IdsIssued(Len(calls)) + 1
    IN  KTBStatement(text, clean, KTBTransactions(raw, 0, first, <<>>))

parseKTB(text) ==
    LET clean == CollapseSpaces(text)
        raw   == KTBRawTransactions(KTBMatchAll(clean, 1), 1, <<>>)
    IN  KTBStatement(text, clean, KTBTransactions(raw, 0, 1, <<>>))

\* the end of parseStatement: the detection, and the parser it chooses
ParseText(text) ==
    IF DetectsKBank(text) THEN parseKBank(text) ELSE parseKTB(text)

(***************************************************************************)
(* The upload page.  A handler of Home, or the settling of a promise with  *)
(* the continuation of processFile behind it, is one step: the microtasks  *)
(* that follow the settling of parseStatement or of the timeout promise    *)
(* (Promise.race, the rest of the try block or the catch block, finally)   *)
(* run before any other event or timer.  A call of processFile is in       *)
(* flight from its start until its finally block has run.                  *)
(***************************************************************************)
MaxCalls == 2

MaxParses == 3

PdfType == "application/pdf"

\* the files the user has at hand: the type, the password the document is
\* encrypted with (<<>>: none) and the text items of each page
Files ==
    << [type |-> PdfType, password |-> <<>>,
        pages |-> << <<KTBDate("oldestFirst", 1, 2), X, T500, T1000>>,
                     <<KTBDate("oldestFirst", 2, 2), X, T500, T1500>> >>],
       [type |-> PdfType, password |-> <<>>,
        pages |-> << KBankDate("oldestFirst", 1, 1)
                         \o <<KPlus, T1255p41, ChamraNgoen, T16>> >>],
       [type |-> PdfType, password |-> <<"p">>, pages |-> << <<X, X>> >>],
       [type |-> "text/plain", password |-> <<>>, pages |-> << <<X>> >>] >>

\* what the user types into a password field
Passwords == {<<"p", " ">>, <<"q">>}

\* the page state other than the calls
homeState == <<data, rawText, isLoading, error, showPasswordInput, password,
               pendingFile>>

\* processFile up to its await: the state is reset, the timer is set and
\* parseStatement is called, which runs up to its own first await
processFile(file, pwd) ==
    /\ Len(calls) < MaxCalls
    /\ isLoading' = TRUE
    /\ error' = <<>>
    /\ rawText' = <<>>
    /\ calls' = Append(calls,
           [file         |-> file,
            pwd          |-> pwd,
            cleanDetails |-> IF pwd # <<>> THEN Trim(pwd) ELSE pwd,
            parse        |-> "getDocument",
            page         |-> 1,
            fullText     |-> <<>>,
            value        |-> <<>>,
            race         |-> "pending"])

\* the race fulfilled with the result of parseStatement: the rest of the try
\* block, then the finally block
Fulfilled(res) ==
    /\ IF Len(res.transactions) = 0
       THEN /\ rawText' = res.rawText
            /\ error' = <<"noTransactions">>
            /\ UNCHANGED <<data, showPasswordInput, password, pendingFile>>
       ELSE /\ data' = <<res>>
            /\ showPasswordInput' = FALSE
            /\ password' = <<>>
            /\ pendingFile' = <<>>
            /\ UNCHANGED <<rawText, error>>
    /\ isLoading' = FALSE

\* the race rejected with an error of name err: the catch block, then the
\* finally block
Rejected(file, pwd, err) ==
    /\ IF err = "PasswordException"
       THEN /\ showPasswordInput' = TRUE
            /\ pendingFile' = <<file>>
            /\ error' = IF pwd # <<>> THEN <<"wrongPassword">>
                        ELSE <<"needPassword">>
       ELSE /\ error' = <<"readError", err>>
            /\ UNCHANGED <<showPasswordInput, pendingFile>>
    /\ isLoading' = FALSE
    /\ UNCHANGED <<data, rawText, password>>

handleDrop(file) ==
    /\ data = <<>>
    /\ IF Files[file].type = PdfType
       THEN /\ processFile(file, password)
            /\ UNCHANGED <<data, showPasswordInput, password, pendingFile>>
       ELSE /\ error' = <<"pdfOnly">>
            /\ UNCHANGED <<data, rawText, isLoading, showPasswordInput,
                           password, pendingFile, calls>>
    /\ UNCHANGED vars

\* the file input, which offers PDF files only and is disabled while the
\* password form is shown
handleFileSelect(file) ==
    /\ data = <<>>
    /\ Files[file].type = PdfType
    /\ ~showPasswordInput
    /\ processFile(file, password)
    /\ UNCHANGED <<data, showPasswordInput, password, pendingFile>>
    /\ UNCHANGED vars

\* typing into the password field of the form, which is rendered while
\* nothing is loading.  (The field of the drop zone sets the same state; the
\* user is taken to type a password only when the form asks for one.)
setPassword(value) ==
    /\ data = <<>>
    /\ ~isLoading
    /\ showPasswordInput
    /\ password' = value
    /\ UNCHANGED <<data, rawText, isLoading, error, showPasswordInput,
                   pendingFile, calls>>
    /\ UNCHANGED vars

handlePasswordSubmit ==
    /\ data = <<>>
    /\ ~isLoading
    /\ showPasswordInput
    /\ IF pendingFile # <<>> /\ password # <<>>
       THEN /\ processFile(pendingFile[1], Trim(password))
            /\ UNCHANGED <<data, showPasswordInput, password, pendingFile>>
       ELSE UNCHANGED homeVars
    /\ UNCHANGED vars

\* the cancel button of the password form
CancelPassword ==
    /\ data = <<>>
    /\ ~isLoading
    /\ showPasswordInput
    /\ showPasswordInput' = FALSE
    /\ password' = <<>>
    /\ pendingFile' = <<>>
    /\ error' = <<>>
    /\ UNCHANGED <<data, rawText, isLoading, calls>>
    /\ UNCHANGED vars

\* the dashboard, shown instead of the drop zone while data is set
onReset ==
    /\ data # <<>>
    /\ data' = <<>>
    /\ UNCHANGED <<rawText, isLoading, error, showPasswordInput, password,
                   pendingFile, calls>>
    /\ UNCHANGED vars

\* the loading task of call c settles: the document is opened, or
\* parseStatement rejects, which rejects the race unless it has settled
GetDocument(c) ==
    /\ c \in 1..Len(calls)
    /\ calls[c].parse = "getDocument"
    /\ LET call == calls[c]
           file == Files[call.file]
           err  == IF file.type # PdfType THEN "InvalidPDFException"
                   ELSE IF file.password # <<>> /\ call.cleanDetails # file.password
                   THEN "PasswordException"
                   ELSE ""
       IN  IF err = ""
           THEN /\ calls' = [calls EXCEPT ![c].parse = "getTextContent"]
                /\ UNCHANGED homeState
           ELSE IF call.race = "pending"
           THEN /\ calls' = [calls EXCEPT ![c].parse = "rejected",
                                          ![c].race = "rejected"]
                /\ Rejected(call.file, call.pwd, err)
           ELSE /\ calls' = [calls EXCEPT ![c].parse = "rejected"]
                /\ UNCHANGED homeState
    /\ UNCHANGED vars

\* the text of the next page of call c arrives; after the last page the text
\* is parsed and parseStatement resolves, which fulfils the race unless it
\* has settled
GetTextContent(c) ==
    /\ c \in 1..Len(calls)
    /\ calls[c].parse = "getTextContent"
    /\ LET call  == calls[c]
           pages == Files[call.file].pages
           text  == call.fullText \o JoinWords(pages[call.page]) \o <<"\n">>
           res   == ParseText(text)
       IN  IF call.page < Len(pages)
           THEN /\ calls' = [calls EXCEPT ![c].fullText = text,
                                          ![c].page = call.page + 1]
                /\ UNCHANGED homeState
           ELSE IF call.race = "pending"
           THEN /\ calls' = [calls EXCEPT ![c].fullText = text,
                                          ![c].parse = "resolved",
                                          ![c].value = <<res>>,
                                          ![c].race = "fulfilled"]
                /\ Fulfilled(res)
           ELSE /\ calls' = [calls EXCEPT ![c].fullText = text,
                                          ![c].parse = "resolved",
                                          ![c].value = <<res>>]
                /\ UNCHANGED homeState
    /\ UNCHANGED vars

\* mutant of Timeout: the timeout promise is not among those raced, the
\* timer fires to no effect
TimeoutNotRaced(c) ==
    /\ c \in 1..Len(calls)
    /\ calls[c].race = "pending"
    /\ UNCHANGED homeVars
    /\ UNCHANGED vars

\* the timer of call c fires while the race is pending: the timeout promise
\* rejects, which rejects the race.  (The timer is never cleared; when it
\* fires after the race has settled, the rejection changes nothing.)
Timeout(c) ==
    /\ c \in 1..Len(calls)
    /\ calls[c].race = "pending"
    /\ calls' = [calls EXCEPT ![c].race = "timeout"]
    /\ Rejected(calls[c].file, calls[c].pwd, "Timeout")
    /\ UNCHANGED vars

\* parseStatement called on its own, outside the page: the call has no race
parseStatement(file, pwd) ==
    /\ Len(calls) < MaxParses
    /\ calls' = Append(calls,
           [file         |-> file,
            pwd          |-> pwd,
            cleanDetails |-> pwd,
            parse        |-> "getDocument",
            page         |-> 1,
            fullText     |-> <<>>,
            value        |-> <<>>,
            race         |-> "none"])
    /\ UNCHANGED homeState
    /\ UNCHANGED vars

\* the page is mounted and no parse of the first specification is running
HomeMounted ==
    /\ HomeInit
    /\ fullText = <<>>
    /\ pc = "parseStatement"
    /\ cleanText = <<>>
    /\ matches = <<>>
    /\ mi = 1
    /\ rawTransactions = <<>>
    /\ origin = <<>>
    /\ i = 0
    /\ idCounter = 1
    /\ transactions = <<>>
    /\ result = <<>>

HomeNext ==
    \/ \E file \in 1..Len(Files) : handleDrop(file)
    \/ \E file \in 1..Len(Files) : handleFileSelect(file)
    \/ \E value \in Passwords : setPassword(value)
    \/ handlePasswordSubmit
    \/ CancelPassword
    \/ onReset
    \/ \E c \in 1..MaxCalls : GetDocument(c)
    \/ \E c \in 1..MaxCalls : GetTextContent(c)
    \/ \E c \in 1..MaxCalls : Timeout(c)

HomeSpec == HomeMounted /\ [][HomeNext]_homeVars

\* parses of the files, started at any time and running side by side
ParseNext ==
    \/ \E file \in 1..Len(Files) : parseStatement(file, <<>>)
    \/ \E c \in 1..MaxParses : GetDocument(c)
    \/ \E c \in 1..MaxParses : GetTextContent(c)

ParseSpec == HomeMounted /\ [][ParseNext]_homeVars

\* a timer that has been set fires
HomeFairSpec ==
    HomeSpec /\ \A c \in 1..MaxCalls : WF_homeVars(Timeout(c))

(***************************************************************************)
(* The claims.                                                             *)
(***************************************************************************)
InKBank == pc = "parseKBank" \/ (pc = "done" /\ result[1].bankName = "KBank")

InKTB == pc = "parseKTB" \/ (pc = "done" /\ result[1].bankName = "Krungthai")

\* the span (line content) candidate k was made from, and its numeric tokens
SpanOf(k) == matches[origin[k]].content

TokensOf(k) == MatchNumbers(SpanOf(k))

\* the value a numeric token denotes, in hundredths
Cents(token) == DigitsValue(SelectSeq(token, IsDigit))

Abs(n) == IF n < 0 THEN -n ELSE n

\* the double nearest to c hundredths
Dec(c) == DecimalToDouble(FALSE, c, 100)

\* the printed balance and amount of candidate k: Format B prints the amount
\* first and the balance last, Format A the balance first and the amount last
KTBBalanceCents(k) == Cents(TokensOf(k)[Len(TokensOf(k))])

KTBAmountCents(k) == Cents(TokensOf(k)[1])

KBankBalanceCents(k) == Cents(TokensOf(k)[1])

KBankAmountCents(k) == Cents(TokensOf(k)[Len(TokensOf(k))])

HintType(curr) == IF curr.isIncomeKeyword THEN "income" ELSE "expense"

\* C1: in Format B every transaction after the first is income if
\* |balance[i-1] + amount[i] - balance[i]| < 0.05, otherwise expense if
\* |balance[i-1] - amount[i] - balance[i]| < 0.05, otherwise its keyword
\* hint (the arithmetic being the program's); balances 1000.00 then 1500.00
\* with amount 500.00 give income.
C1_KTBReconstruction ==
    InKTB =>
        \A k \in 2..Len(transactions) :
            LET prev    == rawTransactions[k - 1]
                curr    == rawTransactions[k]
                incDiff == MathAbs(NumSub(NumAdd(prev.balance, curr.amount),
                                          curr.balance))
                expDiff == MathAbs(NumSub(NumSub(prev.balance, curr.amount),
                                          curr.balance))
            IN  /\ transactions[k].type =
                       IF NumLess(incDiff, Dec(5)) THEN "income"
                       ELSE IF NumLess(expDiff, Dec(5)) THEN "expense"
                       ELSE HintType(curr)
                /\ (/\ prev.balance = Dec(100000)
                    /\ curr.balance = Dec(150000)
                    /\ curr.amount = Dec(50000)) => transactions[k].type = "income"

\* the example of C1 has been classified, against a keyword hint of expense
C1_Witness ==
    /\ InKTB
    /\ Len(transactions) >= 2
    /\ rawTransactions[1].balance = Dec(100000)
    /\ rawTransactions[2].balance = Dec(150000)
    /\ rawTransactions[2].amount = Dec(50000)
    /\ ~rawTransactions[2].isIncomeKeyword
    /\ transactions[2].type = "income"

\* C2: in Format A every transaction after the first is income exactly when
\* balance[i] - balance[i-1] > 0.01 (the program's arithmetic), whatever its
\* amount and the keywords of its description.
C2_KBankDelta ==
    InKBank =>
        \A k \in 2..Len(transactions) :
            transactions[k].type = "income" <=>
                NumGreater(NumSub(rawTransactions[k].balance,
                                  rawTransactions[k - 1].balance), Dec(1))

\* a later transaction whose description holds a received-transfer keyword is
\* an expense, its balance having gone down
C2_Witness ==
    /\ InKBank
    /\ \E k \in 2..Len(transactions) :
           /\ Includes(rawTransactions[k].description, DaiRap)
           /\ NumLess(rawTransactions[k].balance, rawTransactions[k - 1].balance)
           /\ transactions[k].type = "expense"

\* lines k - 1 and k both print a balance, and the balance of line k is that
\* of line k - 1 plus or minus the amount of line k, exactly
KTBSelfConsistent(k) ==
    /\ Len(TokensOf(k - 1)) >= 2
    /\ Len(TokensOf(k)) >= 2
    /\ \/ KTBBalanceCents(k) = KTBBalanceCents(k - 1) + KTBAmountCents(k)
       \/ KTBBalanceCents(k) = KTBBalanceCents(k - 1) - KTBAmountCents(k)

KBankSelfConsistent(k) ==
    \/ KBankBalanceCents(k) = KBankBalanceCents(k - 1) + KBankAmountCents(k)
    \/ KBankBalanceCents(k) = KBankBalanceCents(k - 1) - KBankAmountCents(k)

\* C3: where the printed balances are self-consistent, a transaction after
\* the first is classified by balance arithmetic: in Format B one of the two
\* reconstructions matches, and in both formats the type is what the parser
\* gives with any other keyword hint or description keywords.
C3_ArithmeticNotKeywords ==
    \A k \in 2..Len(transactions) :
        /\ (InKTB /\ KTBSelfConsistent(k)) =>
               /\ \/ KTBMatches(NumAdd(rawTransactions[k - 1].balance,
                                       rawTransactions[k].amount),
                                rawTransactions[k].balance)
                  \/ KTBMatches(NumSub(rawTransactions[k - 1].balance,
                                       rawTransactions[k].amount),
                                rawTransactions[k].balance)
               /\ \A hint \in BOOLEAN :
                      KTBType([rawTransactions EXCEPT ![k].isIncomeKeyword = hint],
                              k - 1) = transactions[k].type
        /\ (InKBank /\ KBankSelfConsistent(k)) =>
               \A d \in {<<>>, RapOon, DaiRap, RapOonNgoen} :
                   KBankType([rawTransactions EXCEPT ![k].description = d],
                             k - 1) = transactions[k].type

\* a self-consistent Format B line with an income keyword is an expense
C3_Witness ==
    /\ InKTB
    /\ \E k \in 2..Len(transactions) :
           /\ KTBSelfConsistent(k)
           /\ rawTransactions[k].isIncomeKeyword
           /\ transactions[k].type = "expense"

\* C4: in Format B a reconstruction that misses the printed balance by
\* exactly 0.05 does not count as a match: where both reconstructions miss by
\* 0.05 or more, one of them by exactly 0.05, the type is the keyword hint.
C4_StrictBoundary ==
    InKTB =>
        \A k \in 2..Len(transactions) :
            LET incMiss == Abs(KTBBalanceCents(k - 1) + KTBAmountCents(k)
                                   - KTBBalanceCents(k))
                expMiss == Abs(KTBBalanceCents(k - 1) - KTBAmountCents(k)
                                   - KTBBalanceCents(k))
            IN  (/\ Len(TokensOf(k - 1)) >= 2
                 /\ Len(TokensOf(k)) >= 2
                 /\ incMiss >= 5
                 /\ expMiss >= 5
                 /\ (incMiss = 5 \/ expMiss = 5))
                    => transactions[k].type = HintType(rawTransactions[k])

\* C5: in Format B a line with exactly one numeric token has no balance, and
\* a transaction after the first is classified by its keyword hint when its
\* line or the line before it has no balance.
C5_NoBalanceUsesHint ==
    InKTB =>
        \A k \in 2..Len(transactions) :
            (Len(TokensOf(k)) = 1 \/ Len(TokensOf(k - 1)) = 1)
                => transactions[k].type = HintType(rawTransactions[k])

KTBIncomeKeywords ==
    {OonNgoenKhao, FakNgoen, RapOon, NgoenOonKhao, Dokbia, KhaoBanchi, KhuenNgoen}

\* C6: in Format B the first transaction is income exactly when its span
\* contains one of the income keywords, whatever its amount, its balance and
\* the later lines.
C6_KTBFirstByKeyword ==
    (InKTB /\ Len(transactions) >= 1) =>
        (transactions[1].type = "income" <=>
            \E kw \in KTBIncomeKeywords : Includes(SpanOf(1), kw))

\* a first transaction is income by its keyword, and a second one follows
C6_Witness ==
    /\ InKTB
    /\ Len(transactions) >= 2
    /\ Includes(SpanOf(1), KhuenNgoen)
    /\ transactions[1].type = "income"

\* C7: in Format A the first transaction is income exactly when its span
\* contains received-transfer phrasing (rap oon, which rap oon ngoen contains,
\* or dai rap), also after the boilerplate phrases are stripped.
C7_KBankFirstByKeyword ==
    (InKBank /\ Len(transactions) >= 1) =>
        (transactions[1].type = "income" <=>
            (Includes(SpanOf(1), RapOon) \/ Includes(SpanOf(1), DaiRap)))

C9_SequentialIds ==
    \A k \in 1..Len(transactions) :
        transactions[k].id = <<DigitChar(k)>>

\* two transactions, of the first and the third span, have the ids 1 and 2
C9_Witness ==
    /\ pc = "done"
    /\ origin = <<1, 3>>
    /\ transactions[2].id = <<"2">>

IsoDateOf(m) == IF InKBank THEN KBankIsoDate(m.date) ELSE KTBIsoDate(m.date)

\* C10: the transactions are in the order of their spans in the text: the
\* k-th transaction is that of the k-th accepted span, and an earlier
\* transaction's span starts before a later one's, whatever their dates.
C10_SourceOrder ==
    /\ \A k \in 1..Len(transactions) :
           /\ transactions[k].date = IsoDateOf(matches[origin[k]])
           /\ transactions[k].description = rawTransactions[k].description
    /\ \A k, l \in 1..Len(origin) :
           k < l => matches[origin[k]].index < matches[origin[l]].index

\* the first transaction is dated later than the second
C10_Witness ==
    /\ pc = "done"
    /\ Len(transactions) >= 2
    /\ parseInt(matches[origin[1]].date) > parseInt(matches[origin[2]].date)
    /\ transactions[1].date = IsoDateOf(matches[origin[1]])

\* the date anchors of a text, left to right and not overlapping: a date of
\* Format B, a date and a time of Format A
RECURSIVE AnchorsFrom(_, _)
AnchorsFrom(s, p) ==
    IF p > Len(s) THEN <<>>
    ELSE IF InKBank /\ KBankAnchorAt(s, p)
         THEN <<p>> \o AnchorsFrom(s, SpaceRunEnd(s, p + 8) + 5)
    ELSE IF InKTB /\ DateAt(s, p, "/") THEN <<p>> \o AnchorsFrom(s, p + 8)
    ELSE AnchorsFrom(s, p + 1)

\* C11: a normalized text with N date anchors is cut into exactly N spans,
\* the k-th starting at the k-th anchor, also where one anchor directly
\* follows another.
C11_OneSpanPerAnchor ==
    pc # "parseStatement" =>
        LET anchors == AnchorsFrom(cleanText, 1)
        IN  /\ Len(matches) = Len(anchors)
            /\ \A k \in 1..Len(matches) : matches[k].index = anchors[k]

\* C12: a text without a matched anchor gives a result with no transactions,
\* and every result retains the text it was parsed from, unchanged.
C12_EmptyResultKeepsText ==
    pc = "done" =>
        /\ Len(result) = 1
        /\ result[1].rawText = fullText
        /\ matches = <<>> => result[1].transactions = <<>>

\* a text of several words without an anchor has been parsed
C12_Witness ==
    /\ pc = "done"
    /\ matches = <<>>
    /\ Len(fullText) > 3
    /\ result[1].transactions = <<>>
    /\ result[1].rawText = fullText
    /\ cleanText # fullText

\* the year a two-digit year yy stands for: buddhist era in Format B, civil
\* in Format A
CanonicalYear(yy) == IF InKBank THEN 2000 + yy ELSE 2500 + yy - 543

\* C13: the date of a transaction is year-MM-DD, where DD, MM and YY are the
\* digits of its anchor, MM and DD copied unchanged, and the year is
\* 2500 + YY - 543 in Format B and 2000 + YY in Format A, for YY in 00..99.
C13_DateConversion ==
    \A k \in 1..Len(transactions) :
        LET a == matches[origin[k]].date
            d == transactions[k].date
        IN  /\ Len(d) = 10
            /\ \A j \in 1..4 : IsDigit(d[j])
            /\ DigitsValue(SubSeq(d, 1, 4)) = CanonicalYear(DigitsValue(SubSeq(a, 7, 8)))
            /\ d[5] = "-"
            /\ SubSeq(d, 6, 7) = SubSeq(a, 4, 5)
            /\ d[8] = "-"
            /\ SubSeq(d, 9, 10) = SubSeq(a, 1, 2)

\* the Format B anchor 77/11/68, whose day is no day of a month, has given
\* the date 2025-11-77
C13_Witness ==
    /\ InKTB
    /\ Len(transactions) >= 1
    /\ matches[origin[1]].date = <<"7", "7", "/", "1", "1", "/", "6", "8">>
    /\ transactions[1].date = <<"2", "0", "2", "5", "-", "1", "1", "-", "7", "7">>

\* t is digits(.digits)?
StrictNumber(t) ==
    LET ie == RunEnd(t, 1, Digits)
    IN  /\ ie > 1
        /\ \/ ie = Len(t) + 1
           \/ /\ CharAt(t, ie) = "."
              /\ ie < Len(t)
              /\ RunEnd(t, ie + 1, Digits) = Len(t) + 1

\* C14: a numeric token that is not digits(.digits)? once its separators are
\* removed is never turned into an amount or a balance: no candidate is made
\* from a span whose first or last token is of that kind.
C14_MalformedTokenRejected ==
    \A k \in 1..Len(rawTransactions) :
        /\ StrictNumber(RemoveCommas(TokensOf(k)[1]))
        /\ StrictNumber(RemoveCommas(TokensOf(k)[Len(TokensOf(k))]))

\* C15: the parsed value of a numeric token is given by its digits alone,
\* wherever its thousands separators are and whether it has any: amount and
\* balance are the token's digits taken as hundredths, so tokens that are
\* equal without their commas parse to the same value.
C15_SeparatorsIgnored ==
    pc = "done" => \A k \in 1..Len(rawTransactions) :
        LET first == Dec(Cents(TokensOf(k)[1]))
            last  == Dec(Cents(TokensOf(k)[Len(TokensOf(k))]))
        IN  IF InKBank
            THEN rawTransactions[k].balance = first /\ rawTransactions[k].amount = last
            ELSE rawTransactions[k].amount = first /\ rawTransactions[k].balance = last

\* the tokens 1255.41 and 1,255.41 of one line have been parsed to the same
\* value, 1255.41
C15_Witness ==
    pc = "done" /\ \E k \in 1..Len(rawTransactions) :
        /\ TokensOf(k)[1] = <<"1", "2", "5", "5", ".", "4", "1">>
        /\ TokensOf(k)[Len(TokensOf(k))] = T1255p41
        /\ rawTransactions[k].amount = rawTransactions[k].balance
        /\ rawTransactions[k].amount = Dec(125541)

\* the spans the first loop has gone through
Visited == 1..(IF mi - 1 < Len(matches) THEN mi - 1 ELSE Len(matches))

\* span m has yielded a candidate
Yielded(m) == \E k \in 1..Len(origin) : origin[k] = m

\* C16: in Format A a span yields a transaction exactly when it holds at
\* least two numeric tokens; its balance is the first token, its amount the
\* last, its time that of its anchor.  The span 'K PLUS 1,255.41 ... 16.00'
\* anchored at 01-07-25 08:53 gives amount 16.00, balance 1255.41, date
\* 2025-07-01 and time 08:53.
C16_KBankSpanToTransaction ==
    InKBank =>
        /\ \A m \in Visited :
               Yielded(m) <=> Len(MatchNumbers(matches[m].content)) >= 2
        /\ pc = "done" => Len(result[1].transactions) = Len(origin)
        /\ pc = "done" => \A k \in 1..Len(transactions) :
               /\ rawTransactions[k].balance = Dec(KBankBalanceCents(k))
               /\ transactions[k].amount = Dec(KBankAmountCents(k))
               /\ transactions[k].time = matches[origin[k]].time
               /\ (/\ matches[origin[k]].date = <<"0", "1", "-", "0", "7", "-", "2", "5">>
                   /\ matches[origin[k]].time = Time0853
                   /\ TokensOf(k)[1] = T1255p41
                   /\ TokensOf(k)[Len(TokensOf(k))] = T16)
                      => /\ transactions[k].amount = Dec(1600)
                         /\ rawTransactions[k].balance = Dec(125541)
                         /\ transactions[k].date =
                                <<"2", "0", "2", "5", "-", "0", "7", "-", "0", "1">>
                         /\ transactions[k].time = Time0853

\* a span with fewer than two tokens has been dropped, and one with three
\* tokens has given amount 16.00 and balance 1255.41
C16_Witness ==
    /\ InKBank
    /\ pc = "done"
    /\ \E m \in 1..Len(matches) : ~Yielded(m)
    /\ \E k \in 1..Len(transactions) :
           /\ Len(TokensOf(k)) = 3
           /\ transactions[k].amount = Dec(1600)
           /\ rawTransactions[k].balance = Dec(125541)

\* the content holds one of the three header-section marker phrases
HasHeaderMarker(content) ==
    \E marker \in {ChueBanchi, ThiyuPatchuban, WanthiSongKhamkho} :
        \E p \in 1..(Len(content) - Len(marker) + 1) :
            SubSeq(content, p, p + Len(marker) - 1) = marker

\* C17: in Format B a span that is no header span yields a transaction
\* exactly when it holds at least one numeric token, and the amount of the
\* transaction is the first token.
C17_KTBSpanToTransaction ==
    InKTB =>
        /\ \A m \in Visited :
               ~HasHeaderMarker(matches[m].content) =>
                   (Yielded(m) <=> Len(MatchNumbers(matches[m].content)) >= 1)
        /\ pc = "done" => Len(result[1].transactions) = Len(origin)
        /\ pc = "done" => \A k \in 1..Len(transactions) :
               transactions[k].amount = Dec(KTBAmountCents(k))

\* a span without a token has been dropped and a span with one token has
\* given a transaction of that amount
C17_Witness ==
    /\ InKTB
    /\ pc = "done"
    /\ \E m \in 1..Len(matches) :
           /\ ~Yielded(m)
           /\ ~HasHeaderMarker(matches[m].content)
    /\ \E k \in 1..Len(transactions) :
           /\ Len(TokensOf(k)) = 1
           /\ transactions[k].amount = Dec(50000)

\* C18: in Format B a span whose content holds a header-section marker
\* yields no transaction, numeric tokens or not; in Format A such a span is
\* not discarded for it, and yields its transaction when it has two tokens.
C18_HeaderSpansDiscarded ==
    \A m \in Visited :
        HasHeaderMarker(matches[m].content) =>
            /\ InKTB => ~Yielded(m)
            /\ InKBank =>
                   (Len(MatchNumbers(matches[m].content)) >= 2 => Yielded(m))

\* a Format B span with the request-date marker and two numeric tokens has
\* been discarded, and the parse has ended without it
C18_Witness ==
    /\ InKTB
    /\ pc = "done"
    /\ \E m \in 1..Len(matches) :
           /\ Includes(matches[m].content, WanthiSongKhamkho)
           /\ Len(MatchNumbers(matches[m].content)) = 2
           /\ ~Yielded(m)

\* a string without whitespace at either end
Trimmed(f) == f = <<>> \/ (~IsSpace(f[1]) /\ ~IsSpace(f[Len(f)]))

\* an optional field: absent, or a trimmed string
AbsentOrTrimmed(f) == f = undefined \/ Trimmed(f)

\* C19: every parse ends with a result that names its bank; account number,
\* owner, branch and address are each absent or a trimmed string (the branch
\* of Format A being its label and a trimmed string), a field whose label is
\* not in the text is absent, and all candidates are emitted whatever the
\* header patterns found.
C19_HeaderFieldsOptional ==
    pc = "done" =>
        LET r == result[1]
        IN  /\ r.bankName \in {"KBank", "Krungthai"}
            /\ AbsentOrTrimmed(r.accountNumber)
            /\ AbsentOrTrimmed(r.accountOwner)
            /\ AbsentOrTrimmed(r.branch)
            /\ AbsentOrTrimmed(r.address)
            /\ (InKBank /\ r.branch # undefined) =>
                   /\ SubSeq(r.branch, 1, 1) = Sakha
                   /\ Trimmed(Tail(r.branch))
            /\ ~Includes(cleanText, ChueBanchi) => r.accountOwner = undefined
            /\ ~Includes(cleanText, Sakha) => r.branch = undefined
            /\ ~Includes(cleanText, ThiyuPatchuban) => r.address = undefined
            /\ Len(r.transactions) = Len(origin)

\* a Format A text whose header has a space after the branch label has given
\* owner and branch, no address, and its transaction
C19_Witness ==
    /\ pc = "done"
    /\ InKBank
    /\ Includes(cleanText, <<"sakha", " ", "x">>)
    /\ result[1].branch = <<"sakha", "x">>
    /\ result[1].accountOwner = X
    /\ result[1].address = undefined
    /\ Len(result[1].transactions) = 1

\* pat occurs in s
Occurs(s, pat) ==
    \E p \in 1..(Len(s) - Len(pat) + 1) : SubSeq(s, p, p + Len(pat) - 1) = pat

\* the text holds a signature of Format A: 'K PLUS', the branch-owner
\* phrase, or two digits, a dash, two digits, a dash and two digits
HasKBankSignature(text) ==
    \/ Occurs(text, <<"K", " ", "PLUS">>)
    \/ Occurs(text, <<"sakha", "chaokhong", "banchi">>)
    \/ \E p \in 1..(Len(text) - 7) :
           /\ \A j \in {0, 1, 3, 4, 6, 7} : text[p + j] \in Digits
           /\ \A j \in {2, 5} : text[p + j] = "-"

\* C20: every text is parsed by exactly one rule set, Format A exactly when
\* the text holds one of its signatures and Format B otherwise, and the
\* result is that rule set's also when it has extracted no transaction.
C20_DetectionTotal ==
    pc # "parseStatement" =>
        /\ InKBank <=> HasKBankSignature(fullText)
        /\ InKTB <=> ~HasKBankSignature(fullText)
        /\ pc = "done" =>
               result[1].bankName =
                   IF HasKBankSignature(fullText) THEN "KBank" ELSE "Krungthai"

\* a text with 'K PLUS' whose only line is one of Format B, which the rules
\* of Format B would have accepted, has been parsed as Format A, to no
\* transaction
C20_Witness ==
    /\ pc = "done"
    /\ result[1].bankName = "KBank"
    /\ result[1].transactions = <<>>
    /\ KTBMatchAll(cleanText, 1) # <<>>
    /\ KTBAccepts(MatchNumbers(KTBMatchAll(cleanText, 1)[1].content))

\* C22: the description of every Format A transaction holds none of the
\* boilerplate phrases and none of the numeric tokens matched in its span,
\* also when a phrase or a token occurs more than once in the span, and it
\* has no leading, trailing or doubled whitespace.
C22_KBankDescriptionClean ==
    (InKBank /\ pc = "done") =>
        \A k \in 1..Len(transactions) :
            LET d == transactions[k].description
            IN  /\ \A phrase \in {KPlus, ChamraNgoen, OonNgoen, RapOonNgoen} :
                       ~Occurs(d, phrase)
                /\ \A n \in 1..Len(TokensOf(k)) : ~Occurs(d, TokensOf(k)[n])
                /\ Trimmed(d)
                /\ \A p \in 1..(Len(d) - 1) : ~(IsSpace(d[p]) /\ IsSpace(d[p + 1]))

\* two digits, a colon and two digits stand at position p of s
HasTimeToken(s, p) ==
    /\ p + 4 <= Len(s)
    /\ \A j \in {0, 1, 3, 4} : s[p + j] \in Digits
    /\ s[p + 2] = ":"

\* C23: the time of every Format B transaction is the first HH:MM token of
\* its span, absent when the span has none, and its description holds no
\* HH:MM token and no numeric token.
C23_KTBTimeAndDescription ==
    (InKTB /\ pc = "done") =>
        \A k \in 1..Len(transactions) :
            LET span  == SpanOf(k)
                d     == transactions[k].description
                times == {p \in 1..Len(span) : HasTimeToken(span, p)}
            IN  /\ transactions[k].time =
                       IF times = {} THEN undefined
                       ELSE SubSeq(span, MinOf(times), MinOf(times) + 4)
                /\ \A p \in 1..Len(d) : ~HasTimeToken(d, p)
                /\ MatchNumbers(d) = <<>>

\* C24: in Format B a transaction after the first whose two reconstructions
\* both match the printed balance within the tolerance is income, whatever
\* its keyword hint: so it is where the program's arithmetic finds both
\* matches, and where the printed values give both, which they do only for
\* an amount below 0.05.
C24_IncomeTestFirst ==
    (InKTB /\ pc = "done") =>
        \A k \in 2..Len(transactions) :
            LET prev    == rawTransactions[k - 1]
                curr    == rawTransactions[k]
                ifIncome  == NumAdd(prev.balance, curr.amount)
                ifExpense == NumSub(prev.balance, curr.amount)
                incCents  == KTBBalanceCents(k - 1) + KTBAmountCents(k)
                expCents  == KTBBalanceCents(k - 1) - KTBAmountCents(k)
            IN  /\ (/\ NumLess(MathAbs(NumSub(ifIncome, curr.balance)), Dec(5))
                    /\ NumLess(MathAbs(NumSub(ifExpense, curr.balance)), Dec(5)))
                       => transactions[k].type = "income"
                /\ (/\ Abs(incCents - KTBBalanceCents(k)) < 5
                    /\ Abs(expCents - KTBBalanceCents(k)) < 5)
                       => /\ KTBAmountCents(k) < 5
                          /\ transactions[k].type = "income"

\* a line of amount 0.00 that repeats the balance of the line before it, and
\* has no income keyword, has been classified income
C24_Witness ==
    /\ InKTB
    /\ pc = "done"
    /\ \E k \in 2..Len(transactions) :
           /\ KTBAmountCents(k) = 0
           /\ KTBBalanceCents(k) = KTBBalanceCents(k - 1)
           /\ ~rawTransactions[k].isIncomeKeyword
           /\ transactions[k].type = "income"

\* span m is one a candidate is made from: in Format A it holds at least two
\* numeric tokens, in Format B no header marker and at least one token
AcceptedSpan(m) ==
    LET content == matches[m].content
    IN  IF InKBank THEN Len(MatchNumbers(content)) >= 2
        ELSE ~HasHeaderMarker(content) /\ Len(MatchNumbers(content)) >= 1

\* the balance printed in span m: the first token in Format A, the last in
\* Format B
PrintedBalance(m) ==
    LET tokens == MatchNumbers(matches[m].content)
    IN  Dec(Cents(IF InKBank THEN tokens[1] ELSE tokens[Len(tokens)]))

\* C25: every transaction comes from an accepted span, and a transaction
\* after the first is classified against the balance printed in the nearest
\* earlier accepted span: the spans dropped between the two are not used.
C25_PredecessorIsLastAccepted ==
    pc = "done" =>
        /\ \A k \in 1..Len(transactions) : AcceptedSpan(origin[k])
        /\ \A k \in 2..Len(transactions) :
               LET earlier == {m \in 1..(origin[k] - 1) : AcceptedSpan(m)}
                   p       == CHOOSE m \in earlier : \A n \in earlier : n <= m
                   curr    == rawTransactions[k]
                   prevBal == PrintedBalance(p)
               IN  /\ earlier # {}
                   /\ origin[k - 1] = p
                   /\ transactions[k].type =
                          IF InKBank
                          THEN IF NumGreater(NumSub(curr.balance, prevBal), Dec(1))
                               THEN "income" ELSE "expense"
                          ELSE IF NumLess(MathAbs(NumSub(NumAdd(prevBal, curr.amount),
                                                         curr.balance)), Dec(5))
                               THEN "income"
                          ELSE IF NumLess(MathAbs(NumSub(NumSub(prevBal, curr.amount),
                                                         curr.balance)), Dec(5))
                               THEN "expense"
                          ELSE HintType(curr)

\* a Format B line follows a header span that prints a balance of its own:
\* compared with the accepted line before the header span it is income, and
\* compared with the header span it would have been an expense
C25_Witness ==
    /\ InKTB
    /\ pc = "done"
    /\ \E k \in 2..Len(transactions) :
           /\ origin[k] = origin[k - 1] + 2
           /\ HasHeaderMarker(matches[origin[k] - 1].content)
           /\ PrintedBalance(origin[k] - 1) = Dec(150000)
           /\ PrintedBalance(origin[k - 1]) = Dec(100000)
           /\ rawTransactions[k].balance = Dec(150000)
           /\ ~rawTransactions[k].isIncomeKeyword
           /\ transactions[k].type = "income"

\* the text of all the pages of file f
FileText(f) ==
    Flatten([p \in 1..Len(Files[f].pages) |->
                JoinWords(Files[f].pages[p]) \o <<"\n">>])

InFlight(c) == c <= Len(calls) /\ calls[c].race = "pending"

\* C26: every invocation of processFile that is in flight comes to its end,
\* whether its parseStatement resolves, rejects or never settles, and the
\* step that ends it sets isLoading to false; when the timeout ends it, an
\* error message is set and data is left as it is, and whatever its
\* parseStatement does afterwards changes nothing on the page.
C26_UploadTerminates ==
    /\ \A c \in 1..MaxCalls : InFlight(c) ~> ~InFlight(c)
    /\ [][\A c \in 1..Len(calls) :
              /\ (InFlight(c) /\ ~InFlight(c)') => isLoading' = FALSE
              /\ (InFlight(c) /\ calls'[c].race = "timeout")
                     => (error' # <<>> /\ data' = data)
              /\ (calls[c].race = "timeout" /\ calls'[c] # calls[c])
                     => homeState' = homeState]_homeVars

\* the timeout has ended a call, with its error message and no data, and the
\* parse of that call has resolved afterwards
C26_Witness ==
    \E c \in 1..Len(calls) :
        /\ calls[c].race = "timeout"
        /\ calls[c].parse = "resolved"
        /\ Len(calls[c].value[1].transactions) > 0
        /\ error = <<"readError", "Timeout">>
        /\ ~isLoading
        /\ data = <<>>

\* C27: isLoading is true in every state in which a call of processFile is
\* in flight.
C27_LoadingWhileInFlight ==
    (\E c \in 1..MaxCalls : InFlight(c)) => isLoading

\* call c has ended with the statement of its file shown
Succeeded(c) ==
    /\ c <= Len(calls)
    /\ calls[c].race = "fulfilled"
    /\ Len(calls[c].value[1].transactions) > 0

\* C28: the step that ends the second of two successful calls of processFile
\* leaves the result of the call started last in data, whichever of the two
\* it ends.
C28_LastStartedWins ==
    [][\A c1, c2 \in 1..MaxCalls :
           (/\ c1 < c2
            /\ Succeeded(c1)' /\ Succeeded(c2)'
            /\ ~(Succeeded(c1) /\ Succeeded(c2)))
               => data' = calls'[c2].value]_homeVars

====
